---- MODULE Spec2Model ----
(***************************************************************************)
(* Interview session orchestration and real-time connection management of  *)
(* the Smart Recruiting Assistant backend (backend/app/routers and         *)
(* backend/app/services).  The program runs on one asyncio event loop: a   *)
(* coroutine runs without interruption from one await that suspends to the *)
(* next one, so every action below is the code between two such awaits.    *)
(***************************************************************************)
EXTENDS Integers, Sequences, FiniteSets, TLC

\* WebSocket objects, session ids and the two connection managers
\* (manager of websocket_router.py, video_manager of video_interview_router.py).
Conns == {"w1", "w2", "w3"}
\* The coroutines that call the managers: one handler per websocket, and a
\* caller outside the handlers (notify_recruiters).
Procs == Conns \cup {"api"}
Sids == {"s1", "s2"}
Mgrs == {"text", "video"}
NoConn == "none"

\* The order in which a run takes websockets and session ids into use (they are
\* interchangeable objects and uuid4 values).
ConnOrder == <<"w1", "w2", "w3">>
SidOrder == <<"s1", "s2">>

\* Bounds of the model: the events from outside in one run (requests, websockets
\* opened, frames, clients going away, clock ticks), and the clock's last minute.
MaxEvents == 4
MaxTime == 1

VARIABLES
    active_connections,   \* [Mgrs -> [Sids -> [has, lst]]]: the managers' dicts of lists
    session_connections,  \* video_manager.session_connections
    interview_sessions,   \* interview_service.interview_sessions
    active_video_sessions,\* video_interview_service.active_video_sessions (its keys)
    vsession,             \* the VideoInterviewSession objects, by session id
    db,                   \* the supabase tables the services write and read
    now,                  \* datetime.now(), in whole minutes
    up,                   \* whether the AI backend and the store answer at present
    alive,                \* per websocket: whether a send on it still succeeds
    outbox,               \* per websocket: the envelopes sent on it, in order
    pc,                   \* per websocket handler: the await it is suspended at
    bc,                   \* per handler: the send_to_session / send it is suspended in
    ep,                   \* per websocket: endpoint and session id it was opened on
    gem,                  \* per websocket: its listen_to_gemini_responses task
    obs,                  \* what the last step did (return values, sends), for the properties
    used                  \* budget counters of the model

vars == <<active_connections, session_connections, interview_sessions,
          active_video_sessions, vsession, db, now, up, alive, outbox, pc, bc, ep,
          gem, obs, used>>

----------------------------------------------------------------------------
\* Python list helpers

\* x in lst
In(x, lst) == \E i \in 1..Len(lst) : lst[i] = x

\* lst.index(x) (1-based), for x in lst
IndexOf(x, lst) == CHOOSE i \in 1..Len(lst) : lst[i] = x /\ \A j \in 1..(i-1) : lst[j] # x

\* list.remove(x): drops the first occurrence of x
ListRemove(lst, x) ==
    LET i == IndexOf(x, lst)
    IN  [j \in 1..(Len(lst) - 1) |-> IF j < i THEN lst[j] ELSE lst[j + 1]]

\* lst[-n:]
LastN(lst, n) == IF Len(lst) <= n THEN lst ELSE SubSeq(lst, Len(lst) - n + 1, Len(lst))

Range(lst) == {lst[i] : i \in 1..Len(lst)}

NoEntry == [has |-> FALSE, lst |-> <<>>]


\* An envelope sent on a websocket: its "type" and what identifies its content.
Env(type, content) == [type |-> type, content |-> content]

\* A conversation turn (an element of conversation_history).
Turn(role, content, type) == [role |-> role, content |-> content, type |-> type]

\* The await a handler is suspended in: a send of msg on websocket `to`, alone
\* (send_personal_message) or inside the loop of send_to_session(msg, sid) of
\* manager m, whose iterator has consumed idx elements; det: the list object the
\* loop iterates is no longer the one in the dict (its key was deleted); k: the
\* code position, which decides what runs when the await returns.  list0, live0,
\* got and touched record the call for the properties: the list and the live
\* connections at the call, the websockets that received msg, and whether
\* anything else changed the list during the call.
NoBc == [m |-> "text", sid |-> "s1", msg |-> Env("none", 0), to |-> NoConn, idx |-> 0,
         det |-> FALSE, k |-> "none", list0 |-> <<>>, live0 |-> {}, got |-> <<>>,
         touched |-> FALSE]

\* What the last step did: the handler that ran, the frame it received, the
\* value or exception of the service call it made, the send_to_session call
\* that returned in it.
NoObs == [h |-> NoConn, frame |-> "none", call |-> "none", sid |-> "none", ret |-> "none",
          report |-> [duration |-> 0, total_questions |-> 0, content |-> 0],
          bcast |-> NoBc, bcast_end |-> "none"]

\* The program state as one record, so that the code between two awaits is a
\* composition of functions on it.
Cur == [active_connections |-> active_connections,
        session_connections |-> session_connections,
        interview_sessions |-> interview_sessions,
        active_video_sessions |-> active_video_sessions,
        vsession |-> vsession, db |-> db, now |-> now, up |-> up, alive |-> alive,
        outbox |-> outbox, pc |-> pc, bc |-> bc, ep |-> ep, gem |-> gem,
        obs |-> NoObs, used |-> used]

Becomes(st) ==
    /\ active_connections' = st.active_connections
    /\ session_connections' = st.session_connections
    /\ interview_sessions' = st.interview_sessions
    /\ active_video_sessions' = st.active_video_sessions
    /\ vsession' = st.vsession
    /\ db' = st.db
    /\ now' = st.now
    /\ up' = st.up
    /\ alive' = st.alive
    /\ outbox' = st.outbox
    /\ pc' = st.pc
    /\ bc' = st.bc
    /\ ep' = st.ep
    /\ gem' = st.gem
    /\ obs' = st.obs
    /\ used' = st.used

----------------------------------------------------------------------------
\* ConnectionManager and VideoConnectionManager

\* Marks the send_to_session calls of other handlers that are suspended on the
\* list of (m, sid): the list changed under them (and, with det, its key went).
Touch(st, h, m, sid, det) ==
    [st EXCEPT !.bc = [x \in Procs |->
        IF x # h /\ st.pc[x] = "bcast" /\ @[x].m = m /\ @[x].sid = sid
        THEN [@[x] EXCEPT !.touched = TRUE, !.det = @ \/ det]
        ELSE @[x]]]

\* connect(websocket, session_id), after websocket.accept()
connect(st, m, ws, sid) ==
    LET e == st.active_connections[m][sid]
        r == [st EXCEPT !.active_connections[m][sid] =
                            [has |-> TRUE, lst |-> Append(e.lst, ws)],
                        !.session_connections[sid] =
                            IF m = "video" THEN ws ELSE @]
    IN  Touch(r, ws, m, sid, FALSE)

\* A faulty variant of disconnect, which drops the whole list of the session.
disconnect_drop_key(st, m, ws, sid) ==
    [st EXCEPT !.active_connections[m][sid] = NoEntry,
               !.session_connections[sid] = IF m = "video" THEN NoConn ELSE @]

\* disconnect(websocket, session_id)
disconnect(st, m, ws, sid) ==
    LET e == st.active_connections[m][sid]
        l1 == IF In(ws, e.lst) THEN ListRemove(e.lst, ws) ELSE e.lst
        e1 == IF l1 = <<>> THEN NoEntry ELSE [has |-> TRUE, lst |-> l1]
        r == [st EXCEPT !.active_connections[m][sid] = IF e.has THEN e1 ELSE e,
                        !.session_connections[sid] =
                            IF m = "video" THEN NoConn ELSE @]
    IN  IF e.has /\ e1 # e THEN Touch(r, ws, m, sid, ~e1.has) ELSE r

\* send_personal_message(message, websocket): the handler suspends in the send.
send_personal_message(st, h, msg, k) ==
    [st EXCEPT !.pc[h] = "send",
               !.bc[h] = [NoBc EXCEPT !.msg = msg, !.to = h, !.k = k,
                                      !.m = st.ep[h].m, !.sid = st.ep[h].sid]]

\* send_to_session(message, session_id) up to its first send: the loop takes
\* the first connection of the list and suspends in the send to it.  With no
\* key or an empty list the call returns at once (pc "fin").
send_to_session(st, h, m, sid, msg, k) ==
    LET e == st.active_connections[m][sid]
        b == [NoBc EXCEPT !.m = m, !.sid = sid, !.msg = msg, !.k = k,
                          !.list0 = e.lst,
                          !.live0 = {c \in Range(e.lst) : st.alive[c]}]
    IN  IF e.has /\ e.lst # <<>>
        THEN [st EXCEPT !.pc[h] = "bcast",
                        !.bc[h] = [b EXCEPT !.to = e.lst[1], !.idx = 1]]
        ELSE [st EXCEPT !.pc[h] = "fin", !.bc[h] = b,
                        !.obs.bcast = b, !.obs.bcast_end = "returned"]

\* The send a send_to_session is suspended in returns or raises, and the loop
\* goes on to its next await: on a failed send the connection is removed from
\* the dict's list (KeyError or ValueError when it is not there: pc "exc"); the
\* iterator then yields the element at its index, if the list has one.
send_to_session_resume(st, h) ==
    LET b == st.bc[h]
        e == st.active_connections[b.m][b.sid]
        ok == st.alive[b.to]
        raised == ~ok /\ ~(e.has /\ In(b.to, e.lst))
        r1 == IF ok
              THEN [st EXCEPT !.outbox[b.to] = Append(@, b.msg),
                              !.bc[h].got = Append(@, b.to)]
              ELSE IF raised THEN st
              ELSE Touch([st EXCEPT !.active_connections[b.m][b.sid].lst =
                                        ListRemove(@, b.to)],
                         h, b.m, b.sid, FALSE)
        lst == IF b.det THEN <<>> ELSE r1.active_connections[b.m][b.sid].lst
    IN  IF raised
        THEN [r1 EXCEPT !.pc[h] = "exc", !.obs.bcast = r1.bc[h],
                        !.obs.bcast_end = "raised"]
        ELSE IF b.idx < Len(lst)
        THEN [r1 EXCEPT !.bc[h].to = lst[b.idx + 1], !.bc[h].idx = b.idx + 1]
        ELSE [r1 EXCEPT !.pc[h] = "fin", !.obs.bcast = r1.bc[h],
                        !.obs.bcast_end = "returned"]

----------------------------------------------------------------------------
\* interview_service.py (text variant)

NoSession == [has |-> FALSE, status |-> "none", conversation_history |-> <<>>,
              start_time |-> 0, end_time |-> -1]

NoRow == [has |-> FALSE, status |-> "none", start_time |-> 0, end_time |-> -1]

\* len([msg for msg in history if msg["role"] == "assistant"])
CountAssistant(h) == Cardinality({i \in 1..Len(h) : h[i].role = "assistant"})

\* calculate_duration(start_time, end_time): whole minutes
calculate_duration(start, end) == end - start

\* What a service call returned or raised, for the properties.
Returned(st, call, sid, ret) ==
    [st EXCEPT !.obs.call = call, !.obs.sid = sid, !.obs.ret = ret]

\* A faulty variant of initiate_interview, which registers the session before
\* the AI call.
initiate_interview_registers_first(st, sid) ==
    LET session == [has |-> TRUE, status |-> "active",
                    conversation_history |-> <<Turn("assistant", 0, "text")>>,
                    start_time |-> st.now, end_time |-> -1]
        r1 == [st EXCEPT !.interview_sessions[sid] = session]
    IN  IF ~st.up.ai THEN Returned(r1, "initiate", sid, "raised")
        ELSE Returned(r1, "initiate", sid, "active")

\* initiate_interview, with the session id uuid4 drew.  get_questions returns
\* when the AI backend answers and raises otherwise; the store accepts the
\* writes of a call when it is up and raises otherwise.
initiate_interview(st, sid) ==
    LET session == [has |-> TRUE, status |-> "active",
                    conversation_history |-> <<Turn("assistant", 0, "text")>>,
                    start_time |-> st.now, end_time |-> -1]
        row == [has |-> TRUE, status |-> "active", start_time |-> st.now, end_time |-> -1]
        r1 == [st EXCEPT !.interview_sessions[sid] = session]
        r2 == IF st.up.db THEN [r1 EXCEPT !.db.sessions[sid] = row] ELSE r1
    IN  IF ~st.up.ai THEN Returned(st, "initiate", sid, "raised")
        ELSE Returned(r2, "initiate", sid, "active")

\* A faulty variant of process_answer_and_get_next, which marks the session
\* failed when the AI call fails.
process_answer_failure_closes(st, sid) ==
    LET session == st.interview_sessions[sid]
        n == Len(session.conversation_history) + 1
        user == Turn("user", n, "text")
        r1 == [st EXCEPT !.interview_sessions[sid].conversation_history = Append(@, user)]
        r2 == [r1 EXCEPT !.interview_sessions[sid].conversation_history =
                             Append(@, Turn("assistant", n, "text"))]
    IN  IF ~session.has THEN Returned(st, "process_answer", sid, "raised")
        ELSE IF ~st.up.ai
        THEN Returned([r1 EXCEPT !.interview_sessions[sid].status = "failed"],
                      "process_answer", sid, "raised")
        ELSE [Returned(r2, "process_answer", sid, "ok") EXCEPT !.obs.report.content = n]

\* A faulty variant of process_answer_and_get_next, which lets an error of the
\* store out to the caller.
process_answer_store_raises(st, sid) ==
    LET session == st.interview_sessions[sid]
        n == Len(session.conversation_history) + 1
        user == Turn("user", n, "text")
        reply == Turn("assistant", n, "text")
        r1 == [st EXCEPT !.interview_sessions[sid].conversation_history = Append(@, user)]
        r2 == [r1 EXCEPT !.interview_sessions[sid].conversation_history = Append(@, reply)]
        r3 == [r2 EXCEPT !.db.messages[sid] = @ \o <<user, reply>>]
    IN  IF ~session.has THEN Returned(st, "process_answer", sid, "raised")
        ELSE IF ~st.up.ai THEN Returned(r1, "process_answer", sid, "raised")
        ELSE IF ~st.up.db THEN Returned(r2, "process_answer", sid, "raised")
        ELSE [Returned(r3, "process_answer", sid, "ok") EXCEPT !.obs.report.content = n]

\* A faulty variant of process_answer_and_get_next, which puts the session back
\* to active.
process_answer_reactivates(st, sid) ==
    LET session == st.interview_sessions[sid]
        n == Len(session.conversation_history) + 1
        r2 == [st EXCEPT !.interview_sessions[sid].conversation_history =
                             @ \o <<Turn("user", n, "text"), Turn("assistant", n, "text")>>,
                         !.interview_sessions[sid].status = "active"]
    IN  IF ~session.has \/ ~st.up.ai THEN Returned(st, "process_answer", sid, "raised")
        ELSE [Returned(r2, "process_answer", sid, "ok") EXCEPT !.obs.report.content = n]

\* A faulty variant of process_answer_and_get_next, which appends the reply
\* before the answer it replies to.
process_answer_reply_first(st, sid) ==
    LET session == st.interview_sessions[sid]
        n == Len(session.conversation_history) + 1
        user == Turn("user", n, "text")
        reply == Turn("assistant", n, "text")
        r2 == [st EXCEPT !.interview_sessions[sid].conversation_history =
                             @ \o <<reply, user>>]
    IN  IF ~session.has \/ ~st.up.ai THEN Returned(st, "process_answer", sid, "raised")
        ELSE [Returned(r2, "process_answer", sid, "ok") EXCEPT !.obs.report.content = n]

\* process_answer_and_get_next.  The answer is identified by the position its
\* turn takes in the history, and the reply of get_questions by the answer it
\* replies to.  get_questions is a blocking call (requests.post): the function
\* has no await.
process_answer_and_get_next(st, sid) ==
    LET session == st.interview_sessions[sid]
        n == Len(session.conversation_history) + 1
        user == Turn("user", n, "text")
        reply == Turn("assistant", n, "text")
        r1 == [st EXCEPT !.interview_sessions[sid].conversation_history = Append(@, user)]
        r2 == [r1 EXCEPT !.interview_sessions[sid].conversation_history = Append(@, reply)]
        r3 == IF st.up.db
              THEN [r2 EXCEPT !.db.messages[sid] = @ \o <<user, reply>>]
              ELSE r2
    IN  IF ~session.has THEN Returned(st, "process_answer", sid, "raised")
        ELSE IF ~st.up.ai THEN Returned(r1, "process_answer", sid, "raised")
        ELSE [Returned(r3, "process_answer", sid, "ok") EXCEPT !.obs.report.content = n]

\* A faulty variant of generate_report, which drops the session from the
\* registry when the AI call fails.
generate_report_failure_drops(st, sid, text) ==
    LET session == st.interview_sessions[sid]
        r1 == [st EXCEPT !.interview_sessions[sid].status = "completed",
                         !.interview_sessions[sid].end_time = st.now]
        report == [duration |-> calculate_duration(session.start_time, st.now),
                   total_questions |-> CountAssistant(session.conversation_history),
                   content |-> text]
    IN  IF ~session.has THEN Returned(st, "generate_report", sid, "raised")
        ELSE IF ~st.up.ai
        THEN Returned([st EXCEPT !.interview_sessions[sid] = NoSession],
                      "generate_report", sid, "raised")
        ELSE [Returned(r1, "generate_report", sid, "ok") EXCEPT !.obs.report = report]

\* generate_report.  text: the assessment get_questions wrote.
generate_report(st, sid, text) ==
    LET session == st.interview_sessions[sid]
        r1 == [st EXCEPT !.interview_sessions[sid].status = "completed",
                         !.interview_sessions[sid].end_time = st.now]
        report == [duration |-> calculate_duration(session.start_time, st.now),
                   total_questions |-> CountAssistant(session.conversation_history),
                   content |-> text]
        r2 == IF st.up.db
              THEN [r1 EXCEPT !.db.reports[sid] = Append(@, report),
                              !.db.sessions[sid] =
                                  IF @.has
                                  THEN [@ EXCEPT !.status = "completed",
                                                 !.end_time = st.now]
                                  ELSE @]
              ELSE r1
    IN  IF ~session.has THEN Returned(st, "generate_report", sid, "raised")
        ELSE IF ~st.up.ai THEN Returned(r1, "generate_report", sid, "raised")
        ELSE [Returned(r2, "generate_report", sid, "ok") EXCEPT !.obs.report = report]

----------------------------------------------------------------------------
\* websocket_router.py: websocket_interview_endpoint, the handler of websocket h.
\* in: what the outside decides during the step: text (the assessment the AI
\* writes), xdisc (a failed send raises WebSocketDisconnect rather than another
\* error).

Inputs == [text : {1, 2}, xdisc : BOOLEAN]

\* The inputs a step does not read are fixed.
NoInput == [text |-> 1, xdisc |-> FALSE]
ReportInputs == {in \in Inputs : ~in.xdisc}
SendInputs == {in \in Inputs : in.text = 1}

\* back at `data = await websocket.receive_text()`
receive_text(st, h) == [st EXCEPT !.pc[h] = "recv", !.bc[h] = NoBc]

\* the handler coroutine has ended (returned, or raised out of the endpoint):
\* nothing in the endpoint unregisters the websocket on this path
ended(st, h) == [st EXCEPT !.pc[h] = "done", !.bc[h] = NoBc]

\* A faulty variant of the disconnect handler, which ends the session when its
\* last connection goes.
text_on_disconnect_ends_session(st, h) ==
    LET sid == st.ep[h].sid
        d == disconnect(st, "text", h, sid)
        e == IF d.interview_sessions[sid].has /\ ~d.active_connections["text"][sid].has
             THEN [d EXCEPT !.interview_sessions[sid].status = "completed"]
             ELSE d
        r == send_to_session(e, h, "text", sid, Env("user_disconnected", 0), "bc_disc")
    IN  IF r.pc[h] = "fin" THEN ended(r, h) ELSE r

\* lines 160-170: except WebSocketDisconnect
text_on_disconnect(st, h) ==
    LET sid == st.ep[h].sid
        r == send_to_session(disconnect(st, "text", h, sid), h, "text", sid,
                             Env("user_disconnected", 0), "bc_disc")
    IN  IF r.pc[h] = "fin" THEN ended(r, h) ELSE r

\* an exception leaves the `while True` loop (lines 62-158)
text_raise(st, h, in) == IF in.xdisc THEN text_on_disconnect(st, h) ELSE ended(st, h)

\* lines 99-107, 141-148, 150-158: the error envelope to the sender
text_error(st, h) == send_personal_message(st, h, Env("error", 0), "err")

\* A faulty variant of the ping branch, which sends the pong to the session.
text_pong_to_session(st, h) ==
    LET r == send_to_session(st, h, "text", st.ep[h].sid, Env("pong", 0), "pong")
    IN  IF r.pc[h] = "fin" THEN [r EXCEPT !.pc[h] = "recv", !.bc[h] = NoBc] ELSE r

\* lines 109-117: the pong envelope, to the sender
text_pong(st, h) == send_personal_message(st, h, Env("pong", 0), "pong")

\* lines 132-139: the report envelope, after the completion envelope
text_send_report(st, h) ==
    LET r == send_to_session(st, h, "text", st.ep[h].sid, Env("interview_report", 0),
                             "bc_report")
    IN  IF r.pc[h] = "fin" THEN receive_text(r, h) ELSE r

\* lines 83-107: process the answer, then the reply to the whole session
text_process(st, h) ==
    LET sid == st.ep[h].sid
        r == process_answer_and_get_next(st, sid)
        s == send_to_session(r, h, "text", sid, Env("ai_response", r.obs.report.content),
                             "bc_ai")
    IN  IF r.obs.ret = "raised" THEN text_error(r, h)
        ELSE IF s.pc[h] = "fin" THEN receive_text(s, h) ELSE s

\* lines 119-148: end_interview
text_end(st, h, in) ==
    LET sid == st.ep[h].sid
        r == generate_report(st, sid, in.text)
        s == send_to_session(r, h, "text", sid, Env("interview_completed", 0), "bc_done")
    IN  IF r.obs.ret = "raised" THEN text_error(r, h)
        ELSE IF s.pc[h] = "fin" THEN text_send_report(s, h) ELSE s

\* lines 64-158: one frame arrives and is handled up to the next await
text_frame(st, h, frame, in) ==
    LET sid == st.ep[h].sid
        r == [st EXCEPT !.obs.h = h, !.obs.frame = frame]
        s == send_to_session(r, h, "text", sid, Env("user_message", 0), "bc_user")
    IN  CASE frame = "user_message" ->
                IF s.pc[h] = "fin" THEN text_process(s, h) ELSE s
          [] frame = "ping" -> text_pong(r, h)
          [] frame = "end_interview" -> text_end(r, h, in)
          [] frame = "badjson" -> text_error(r, h)
          [] frame = "nonobject" -> text_raise(r, h, [in EXCEPT !.xdisc = FALSE])
          [] OTHER -> receive_text(r, h)

\* a send_to_session of the handler returned or raised
text_after_session_send(st, h, in) ==
    LET k == st.bc[h].k
    IN  IF st.pc[h] = "exc"
        THEN IF k \in {"bc_ai", "bc_done", "bc_report"} THEN text_error(st, h)
             ELSE ended(st, h)
        ELSE CASE k = "bc_user" -> text_process(st, h)
               [] k = "bc_done" -> text_send_report(st, h)
               [] k = "bc_disc" -> ended(st, h)
               [] OTHER -> receive_text(st, h)

\* the await the handler is suspended in returns or raises, and the handler
\* runs to its next await
text_resume(st, h, in) ==
    LET r0 == st
        r == send_to_session_resume(r0, h)
    IN  IF st.pc[h] = "bcast"
        THEN IF r.pc[h] = "bcast" THEN r ELSE text_after_session_send(r, h, in)
        ELSE IF st.alive[h]
        THEN receive_text([r0 EXCEPT !.outbox[h] = Append(@, st.bc[h].msg)], h)
        ELSE text_raise(r0, h, in)

----------------------------------------------------------------------------
\* video_interview_service.py (video variant)

\* VideoInterviewSession._save_session_to_database: upserts the session row and
\* inserts every message of the history; a store error is caught and printed.
save_session_to_database(st, sid) ==
    LET s == st.vsession[sid]
        row == [has |-> TRUE, status |-> s.status, start_time |-> s.start_time,
                end_time |-> s.end_time]
    IN  IF st.up.db
        THEN [st EXCEPT !.db.sessions[sid] = row,
                        !.db.messages[sid] = @ \o s.conversation_history]
        ELSE st

\* start_video_interview: the session object, connect_to_gemini (the greeting),
\* the registry entry, the first save
start_video_interview(st, sid) ==
    LET s == [has |-> TRUE, status |-> "active",
              conversation_history |-> <<Turn("assistant", 0, "text")>>,
              is_connected |-> TRUE, start_time |-> st.now, end_time |-> -1]
        r == [st EXCEPT !.vsession[sid] = s,
                        !.active_video_sessions = @ \cup {sid}]
    IN  IF ~st.up.ai THEN Returned(st, "start_video", sid, "raised")
        ELSE Returned(save_session_to_database(r, sid), "start_video", sid, "active")

\* VideoInterviewSession.end_interview
end_interview(st, sid) ==
    save_session_to_database(
        [st EXCEPT !.vsession[sid].status = "completed",
                   !.vsession[sid].end_time = st.now,
                   !.vsession[sid].is_connected = FALSE], sid)

\* end_video_interview
end_video_interview(st, sid) ==
    IF sid \notin st.active_video_sessions
    THEN Returned(st, "end_video", sid, "raised")
    ELSE Returned([end_interview(st, sid) EXCEPT !.active_video_sessions = @ \ {sid}],
                  "end_video", sid, "completed")

\* generate_video_interview_report: reads the session row and the message rows
\* back from the store, asks the AI for the assessment, inserts the report row.
\* Any error of the store or of the AI is raised to the caller.
generate_video_interview_report(st, sid, text) ==
    LET row == st.db.sessions[sid]
        rows == st.db.messages[sid]
        end == IF row.end_time = -1 THEN st.now ELSE row.end_time
        report == [duration |-> calculate_duration(row.start_time, end),
                   total_questions |-> CountAssistant(rows),
                   content |-> text]
        r == [st EXCEPT !.db.reports[sid] = Append(@, report)]
    IN  IF ~st.up.db \/ ~row.has \/ ~st.up.ai
        THEN Returned(st, "video_report", sid, "raised")
        ELSE [Returned(r, "video_report", sid, "ok") EXCEPT !.obs.report = report]

----------------------------------------------------------------------------
\* video_interview_router.py: video_interview_websocket, the handler of
\* websocket h, and its listen_to_gemini_responses task

\* gemini_task.cancel(), when the name is bound
cancel(st, h) ==
    [st EXCEPT !.gem[h].state = IF @ = "run" THEN "cancel" ELSE @]

\* lines 304-309: except Exception
video_crash(st, h) == ended(cancel(st, h), h)

\* lines 289-302: except WebSocketDisconnect
video_on_disconnect(st, h) ==
    LET sid == st.ep[h].sid
        r == send_to_session(cancel(disconnect(st, "video", h, sid), h), h, "video", sid,
                             Env("user_disconnected", 0), "v_bc_disc")
    IN  IF r.pc[h] = "fin" THEN ended(r, h) ELSE r

\* the error envelope to the sender
video_error(st, h) == send_personal_message(st, h, Env("error", 0), "v_err")

\* lines 235-241: the pong envelope, to the sender
video_pong(st, h) == send_personal_message(st, h, Env("pong", 0), "pong")

\* lines 243-269: end_interview
video_end(st, h, in) ==
    LET sid == st.ep[h].sid
        r == generate_video_interview_report(end_interview(st, sid), sid, in.text)
        s == send_to_session(r, h, "video", sid, Env("interview_completed", 0), "v_bc_done")
    IN  IF r.obs.ret = "raised" THEN video_error(r, h)
        ELSE IF s.pc[h] = "fin" THEN video_crash(s, h) ELSE s

\* send_text_message up to its await of _call_gemini_api
send_text_message(st, h) ==
    LET sid == st.ep[h].sid
        n == Len(st.vsession[sid].conversation_history) + 1
    IN  IF ~st.vsession[sid].is_connected
        THEN video_error(Returned(st, "send_text", sid, "False"), h)
        ELSE [st EXCEPT !.vsession[sid].conversation_history =
                            Append(@, Turn("user", n, "text")),
                        !.pc[h] = "ai",
                        !.bc[h] = [NoBc EXCEPT !.k = "ai_text", !.m = "video", !.sid = sid,
                                               !.msg = Env("ai", n)]]

\* send_video_frame up to its await of _call_gemini_api
send_video_frame(st, h) ==
    LET sid == st.ep[h].sid
    IN  IF ~st.vsession[sid].is_connected
        THEN video_error(Returned(st, "send_video", sid, "False"), h)
        ELSE [st EXCEPT !.pc[h] = "ai",
                        !.bc[h] = [NoBc EXCEPT !.k = "ai_frame", !.m = "video",
                                               !.sid = sid]]

\* lines 179-287: one frame arrives and is handled up to the next await
video_frame(st, h, frame, in) ==
    LET r == [st EXCEPT !.obs.h = h, !.obs.frame = frame]
    IN  CASE frame = "audio_chunk" -> receive_text(r, h)
          [] frame = "video_frame" -> send_video_frame(r, h)
          [] frame = "text_message" -> send_text_message(r, h)
          [] frame = "ping" -> video_pong(r, h)
          [] frame = "end_interview" -> video_end(r, h, in)
          [] frame \in {"nonobject", "bad_base64"} -> video_crash(r, h)
          [] OTHER -> video_error(r, h)

\* A faulty variant of the return of _call_gemini_api, which stores the reply
\* in the place of the last turn of the history.
video_ai_return_overwrites(st, h) ==
    LET sid == st.ep[h].sid
        k == st.bc[h].k
        n == st.bc[h].msg.content
        turn == IF k = "ai_text" THEN Turn("assistant", n, "text")
                ELSE Turn("assistant", 0, "video_analysis")
        r == [st EXCEPT !.vsession[sid].conversation_history =
                            [@ EXCEPT ![Len(@)] = turn]]
        s == send_to_session(r, h, "video", sid, Env("user_message", n), "v_bc_user")
    IN  IF ~st.up.ai THEN video_error(st, h)
        ELSE IF k = "ai_frame" THEN receive_text(r, h)
        ELSE IF s.pc[h] = "fin" THEN receive_text(s, h) ELSE s

\* _call_gemini_api returns to send_text_message or send_video_frame, and the
\* handler runs to its next await
video_ai_return(st, h) ==
    LET sid == st.ep[h].sid
        k == st.bc[h].k
        n == st.bc[h].msg.content
        turn == IF k = "ai_text" THEN Turn("assistant", n, "text")
                ELSE Turn("assistant", 0, "video_analysis")
        r == [st EXCEPT !.vsession[sid].conversation_history = Append(@, turn)]
        s == send_to_session(r, h, "video", sid, Env("user_message", n), "v_bc_user")
    IN  IF ~st.up.ai THEN video_error(st, h)
        ELSE IF k = "ai_frame" THEN receive_text(r, h)
        ELSE IF s.pc[h] = "fin" THEN receive_text(s, h) ELSE s

\* a send_to_session of the handler returned or raised
video_after_session_send(st, h) ==
    LET k == st.bc[h].k
    IN  IF st.pc[h] = "exc"
        THEN IF k = "v_bc_done" THEN video_error(st, h)
             ELSE IF k = "v_bc_user" THEN video_crash(st, h)
             ELSE ended(st, h)
        ELSE CASE k = "v_bc_done" -> video_crash(st, h)
               [] k = "v_bc_disc" -> ended(st, h)
               [] OTHER -> receive_text(st, h)

\* the send the handler awaits returns (send_personal_message swallows a
\* failure), and the handler runs to its next await
video_resume(st, h) ==
    LET r == send_to_session_resume(st, h)
        k == st.bc[h].k
        s == IF st.alive[h] THEN [st EXCEPT !.outbox[h] = Append(@, st.bc[h].msg)] ELSE st
    IN  IF st.pc[h] = "bcast"
        THEN IF r.pc[h] = "bcast" THEN r ELSE video_after_session_send(r, h)
        ELSE IF k = "v_notfound" THEN ended(s, h)
        ELSE IF k = "v_welcome"
        THEN receive_text([s EXCEPT !.gem[h] = [state |-> "run", idx |-> 0]], h)
        ELSE receive_text(s, h)

\* The position of the next assistant message after position i of history, or
\* 0: what `async for response in session.listen_for_responses()` yields next.
NextAssistant(history, i) ==
    LET js == {j \in (i + 1)..Len(history) : history[j].role = "assistant"}
    IN  IF js = {} THEN 0 ELSE CHOOSE j \in js : \A j2 \in js : j <= j2

\* listen_to_gemini_responses, one iteration: the next stored assistant message
\* is forwarded to the websocket; the task ends when the history has no more.
listen_to_gemini_responses(st, h) ==
    LET history == st.vsession[st.ep[h].sid].conversation_history
        j == NextAssistant(history, st.gem[h].idx)
        msg == Env("ai_response", history[j].content)
        r == IF st.alive[h] THEN [st EXCEPT !.outbox[h] = Append(@, msg)] ELSE st
    IN  IF j = 0 THEN [st EXCEPT !.gem[h].state = "fin"]
        ELSE [r EXCEPT !.gem[h].idx = j]

----------------------------------------------------------------------------
\* The state after import: empty registries, no websocket opened.

NoVSession == [has |-> FALSE, status |-> "none", conversation_history |-> <<>>,
               is_connected |-> FALSE, start_time |-> 0, end_time |-> -1]

NoGem == [state |-> "none", idx |-> 0]

InitState ==
    [active_connections |-> [m \in Mgrs |-> [s \in Sids |-> NoEntry]],
     session_connections |-> [s \in Sids |-> NoConn],
     interview_sessions |-> [s \in Sids |-> NoSession],
     active_video_sessions |-> {},
     vsession |-> [s \in Sids |-> NoVSession],
     db |-> [sessions |-> [s \in Sids |-> NoRow],
             messages |-> [s \in Sids |-> <<>>],
             reports |-> [s \in Sids |-> <<>>]],
     now |-> 0,
     up |-> [ai |-> TRUE, db |-> TRUE],
     alive |-> [c \in Conns |-> TRUE],
     outbox |-> [c \in Conns |-> <<>>],
     pc |-> [p \in Procs |-> "closed"],
     bc |-> [p \in Procs |-> NoBc],
     ep |-> [c \in Conns |-> [m |-> "none", sid |-> "none"]],
     gem |-> [c \in Conns |-> NoGem],
     obs |-> NoObs,
     used |-> 0]

\* The variables hold the state st.
Is(st) ==
    /\ active_connections = st.active_connections
    /\ session_connections = st.session_connections
    /\ interview_sessions = st.interview_sessions
    /\ active_video_sessions = st.active_video_sessions
    /\ vsession = st.vsession
    /\ db = st.db
    /\ now = st.now
    /\ up = st.up
    /\ alive = st.alive
    /\ outbox = st.outbox
    /\ pc = st.pc
    /\ bc = st.bc
    /\ ep = st.ep
    /\ gem = st.gem
    /\ obs = st.obs
    /\ used = st.used

Init == Is(InitState)

\* The next websocket object and the next uuid4 value of the run.
NextConn(c) == \E i \in 1..Len(ConnOrder) :
    /\ ConnOrder[i] = c
    /\ ep[c].m = "none"
    /\ \A j \in 1..(i - 1) : ep[ConnOrder[j]].m # "none"

Fresh(sid) == \E i \in 1..Len(SidOrder) :
    /\ SidOrder[i] = sid
    /\ ~interview_sessions[sid].has /\ ~vsession[sid].has
    /\ \A j \in 1..(i - 1) :
        interview_sessions[SidOrder[j]].has \/ vsession[SidOrder[j]].has

\* A session id a start request has handed out.
Known(sid) == interview_sessions[sid].has \/ vsession[sid].has

\* The session ids a client names: one it was given, or one nobody was given
\* (the next one stands for all of those).
Named(sid) == Known(sid) \/ Fresh(sid)

\* One more event from outside.
Event == [Cur EXCEPT !.used = @ + 1]

----------------------------------------------------------------------------
\* The environment: time passes; a client goes away.

Tick ==
    /\ used < MaxEvents
    /\ now < MaxTime
    /\ Becomes([Event EXCEPT !.now = @ + 1])

\* the AI backend, or the store, goes down or comes back
AiToggle ==
    /\ used < MaxEvents
    /\ Becomes([Event EXCEPT !.up.ai = ~@])

DbToggle ==
    /\ used < MaxEvents
    /\ Becomes([Event EXCEPT !.up.db = ~@])

ClientClose(c) ==
    /\ used < MaxEvents
    /\ ep[c].m # "none"
    /\ alive[c]
    /\ Becomes([Event EXCEPT !.alive[c] = FALSE])

----------------------------------------------------------------------------
\* Text variant: the HTTP routes and the websocket endpoint

\* POST /applicant/start_interview
StartInterview(sid) ==
    /\ used < MaxEvents
    /\ Fresh(sid)
    /\ Becomes(initiate_interview(Event, sid))

\* POST /api/next_question
NextQuestion(sid) ==
    /\ used < MaxEvents
    /\ Known(sid)
    /\ Becomes(process_answer_and_get_next(Event, sid))

\* POST /api/finish_interview
FinishInterview(sid, in) ==
    /\ used < MaxEvents
    /\ Known(sid)
    /\ Becomes(generate_report(Event, sid, in.text))

\* a client opens /ws/interview/{sid}: manager.connect, then the welcome message
TextOpen(h, sid) ==
    /\ used < MaxEvents
    /\ Named(sid)
    /\ pc[h] = "closed"
    /\ NextConn(h)
    /\ LET r == [Event EXCEPT !.ep[h] = [m |-> "text", sid |-> sid]]
       IN  Becomes(send_personal_message(connect(r, "text", h, sid), h, Env("system", 0),
                                         "welcome"))

TextFrames == {"user_message", "ping", "end_interview", "unknown_kind", "badjson",
               "nonobject"}

\* The inputs the handling of a frame reads before its next await.
TextFrameInputs(h, frame) ==
    IF frame = "end_interview" THEN ReportInputs ELSE {NoInput}

\* receive_text returns a frame
TextReceive(h, frame, in) ==
    /\ used < MaxEvents
    /\ pc[h] = "recv"
    /\ ep[h].m = "text"
    /\ alive[h]
    /\ Becomes(text_frame(Event, h, frame, in))

\* receive_text raises WebSocketDisconnect
TextDisconnected(h) ==
    /\ pc[h] = "recv"
    /\ ep[h].m = "text"
    /\ ~alive[h]
    /\ Becomes(text_on_disconnect([Cur EXCEPT !.obs.h = h, !.obs.frame = "disconnect"], h))

\* The inputs the code after the awaited send reads before its next await.
TextResumeInputs(h) ==
    IF pc[h] = "send" /\ ~alive[h] THEN SendInputs ELSE {NoInput}

\* the send the handler awaits returns or raises
TextResume(h, in) ==
    /\ pc[h] \in {"send", "bcast"}
    /\ ep[h].m = "text"
    /\ Becomes(text_resume(Cur, h, in))

NextText ==
    \/ Tick
    \/ AiToggle
    \/ DbToggle
    \/ \E c \in Conns : ClientClose(c)
    \/ \E sid \in Sids : StartInterview(sid)
    \/ \E sid \in Sids : NextQuestion(sid)
    \/ \E sid \in Sids, in \in ReportInputs : FinishInterview(sid, in)
    \/ \E h \in Conns, sid \in Sids : TextOpen(h, sid)
    \/ \E h \in Conns, f \in TextFrames : \E in \in TextFrameInputs(h, f) :
            TextReceive(h, f, in)
    \/ \E h \in Conns : TextDisconnected(h)
    \/ \E h \in Conns : \E in \in TextResumeInputs(h) : TextResume(h, in)

SpecText == Init /\ [][NextText]_vars

\* The text variant from the state in which POST /applicant/start_interview has
\* answered once: one text session, with its opening question, is registered.
InitTextStarted == Is([initiate_interview(InitState, SidOrder[1]) EXCEPT !.obs = NoObs])

SpecTextStarted == InitTextStarted /\ [][NextText]_vars

----------------------------------------------------------------------------
\* Video variant: the HTTP routes and the websocket endpoint

\* POST /video-interview/start
VideoStart(sid) ==
    /\ used < MaxEvents
    /\ Fresh(sid)
    /\ Becomes(start_video_interview(Event, sid))

\* POST /video-interview/end/{sid}
VideoEnd(sid) ==
    /\ used < MaxEvents
    /\ Known(sid)
    /\ Becomes(end_video_interview(Event, sid))

\* GET /video-interview/report/{sid}
VideoReport(sid, in) ==
    /\ used < MaxEvents
    /\ Known(sid)
    /\ Becomes(generate_video_interview_report(Event, sid, in.text))

\* a client opens /video-interview/ws/{sid}: video_manager.connect, the session
\* lookup, then the welcome message or the error message
VideoOpen(h, sid) ==
    /\ used < MaxEvents
    /\ Named(sid)
    /\ pc[h] = "closed"
    /\ NextConn(h)
    /\ LET r == connect([Event EXCEPT !.ep[h] = [m |-> "video", sid |-> sid]],
                        "video", h, sid)
       IN  Becomes(IF sid \in active_video_sessions
                   THEN send_personal_message(r, h, Env("connected", 0), "v_welcome")
                   ELSE send_personal_message(r, h, Env("error", 0), "v_notfound"))

VideoFrames == {"audio_chunk", "video_frame", "text_message", "ping", "end_interview",
                "unknown_kind", "badjson", "nonobject", "bad_base64"}

\* receive_text returns a frame
VideoReceive(h, frame, in) ==
    /\ used < MaxEvents
    /\ pc[h] = "recv"
    /\ ep[h].m = "video"
    /\ alive[h]
    /\ Becomes(video_frame(Event, h, frame, in))

\* receive_text raises WebSocketDisconnect
VideoDisconnected(h) ==
    /\ pc[h] = "recv"
    /\ ep[h].m = "video"
    /\ ~alive[h]
    /\ Becomes(video_on_disconnect([Cur EXCEPT !.obs.h = h, !.obs.frame = "disconnect"], h))

\* the send the handler awaits returns
VideoResume(h) ==
    /\ pc[h] \in {"send", "bcast"}
    /\ ep[h].m = "video"
    /\ Becomes(video_resume(Cur, h))

\* the AI call the handler awaits returns
VideoAiReturn(h) ==
    /\ pc[h] = "ai"
    /\ Becomes(video_ai_return(Cur, h))

\* the listen_to_gemini_responses task of the websocket runs one iteration
GeminiTask(h) ==
    /\ gem[h].state = "run"
    /\ Becomes(listen_to_gemini_responses(Cur, h))

NextVideo ==
    \/ Tick
    \/ AiToggle
    \/ DbToggle
    \/ \E c \in Conns : ClientClose(c)
    \/ \E sid \in Sids : VideoStart(sid)
    \/ \E sid \in Sids : VideoEnd(sid)
    \/ \E sid \in Sids, in \in ReportInputs : VideoReport(sid, in)
    \/ \E h \in Conns, sid \in Sids : VideoOpen(h, sid)
    \/ \E h \in Conns, f \in VideoFrames : \E in \in TextFrameInputs(h, f) :
            VideoReceive(h, f, in)
    \/ \E h \in Conns : VideoDisconnected(h)
    \/ \E h \in Conns : VideoResume(h)
    \/ \E h \in Conns : VideoAiReturn(h)
    \/ \E h \in Conns : GeminiTask(h)

SpecVideo == Init /\ [][NextVideo]_vars

\* The video variant from the state in which POST /video-interview/start has
\* answered once: one video session, with its greeting, is in the registry.
InitStarted == Is([start_video_interview(InitState, SidOrder[1]) EXCEPT !.obs = NoObs])

SpecVideoStarted == InitStarted /\ [][NextVideo]_vars

\* The video variant with the event loop's scheduling: a coroutine whose await
\* has completed is resumed (a send returns or raises, the executor's
\* requests.post returns within its timeout, a created task gets its turn).
\* Nothing obliges a client to send a frame or a request.
FairVideo ==
    WF_vars(\E h \in Conns :
                \/ VideoResume(h)
                \/ VideoAiReturn(h)
                \/ GeminiTask(h)
                \/ VideoDisconnected(h))

SpecVideoFair == Init /\ [][NextVideo]_vars /\ FairVideo

----------------------------------------------------------------------------
\* The whole backend: both variants in one process

Next == NextText \/ NextVideo

Spec == Init /\ [][Next]_vars

----------------------------------------------------------------------------
\* The connection managers alone, called as the endpoints and notify_recruiters
\* call them: connect, disconnect, and send_to_session by one caller.

MgrConnect(m, ws, sid) ==
    /\ used < MaxEvents
    /\ NextConn(ws)
    /\ Becomes(connect([Event EXCEPT !.ep[ws] = [m |-> m, sid |-> sid]], m, ws, sid))

MgrDisconnect(ws) ==
    /\ used < MaxEvents
    /\ ep[ws].m # "none"
    /\ LET was == In(ws, active_connections[ep[ws].m][ep[ws].sid].lst)
           r == disconnect(Event, ep[ws].m, ws, ep[ws].sid)
       IN  Becomes([Returned(r, "disconnect", ep[ws].sid,
                             IF was THEN "removed" ELSE "absent") EXCEPT !.obs.h = ws])

MgrReturn(st) == IF st.pc["api"] \in {"fin", "exc"} THEN ended(st, "api") ELSE st

MgrSend(m, sid) ==
    /\ used < MaxEvents
    /\ pc["api"] \in {"closed", "done"}
    /\ Becomes(MgrReturn(send_to_session(Event, "api", m, sid,
                                         Env("notification", used), "api")))

MgrResume ==
    /\ pc["api"] = "bcast"
    /\ Becomes(MgrReturn(send_to_session_resume(Cur, "api")))

NextMgr ==
    \/ \E m \in Mgrs, ws \in Conns, sid \in Sids : MgrConnect(m, ws, sid)
    \/ \E ws \in Conns : MgrDisconnect(ws)
    \/ \E c \in Conns : ClientClose(c)
    \/ \E m \in Mgrs, sid \in Sids : MgrSend(m, sid)
    \/ MgrResume

SpecMgr == Init /\ [][NextMgr]_vars

----------------------------------------------------------------------------
\* The AI call of the text variant, seen from the event loop.  get_questions
\* is requests.post called from a coroutine with no await: from the call to its
\* return the thread of the event loop is inside it, and no other coroutine
\* runs.  The coroutines here are the ones serving POST /api/next_question,
\* named by the elements of Procs.

\* process_answer_and_get_next up to the call of get_questions (lines 116-155)
process_answer_call(st, p, sid) ==
    LET session == st.interview_sessions[sid]
        n == Len(session.conversation_history) + 1
    IN  IF ~session.has THEN Returned(st, "process_answer", sid, "raised")
        ELSE [st EXCEPT !.interview_sessions[sid].conversation_history =
                            Append(@, Turn("user", n, "text")),
                        !.pc[p] = "block",
                        !.bc[p] = [NoBc EXCEPT !.k = "get_questions", !.sid = sid,
                                               !.msg = Env("ai", n)]]

\* get_questions returns or raises, and process_answer_and_get_next runs to its
\* end (lines 155-187)
process_answer_return(st, p) ==
    LET sid == st.bc[p].sid
        n == st.bc[p].msg.content
        user == Turn("user", n, "text")
        reply == Turn("assistant", n, "text")
        r1 == [st EXCEPT !.pc[p] = "closed", !.bc[p] = NoBc]
        r2 == [r1 EXCEPT !.interview_sessions[sid].conversation_history = Append(@, reply)]
        r3 == IF st.up.db
              THEN [r2 EXCEPT !.db.messages[sid] = @ \o <<user, reply>>]
              ELSE r2
    IN  IF ~st.up.ai THEN Returned(r1, "process_answer", sid, "raised")
        ELSE [Returned(r3, "process_answer", sid, "ok") EXCEPT !.obs.report.content = n]

\* The thread of the event loop is inside a requests.post.
Blocked == \E p \in Procs : pc[p] = "block"

\* POST /api/next_question arrives and its coroutine p runs up to the AI call
NextQuestionCall(p, sid) ==
    /\ used < MaxEvents
    /\ ~Blocked
    /\ pc[p] = "closed"
    /\ Known(sid)
    /\ Becomes(process_answer_call(Event, p, sid))

\* the AI call of coroutine p returns
GetQuestionsReturn(p) ==
    /\ pc[p] = "block"
    /\ Becomes(process_answer_return(Cur, p))

\* POST /applicant/start_interview, served when the event loop is free
StartInterviewCall(sid) ==
    /\ ~Blocked
    /\ StartInterview(sid)

NextCalls ==
    \/ Tick
    \/ AiToggle
    \/ DbToggle
    \/ \E sid \in Sids : StartInterviewCall(sid)
    \/ \E p \in Procs, sid \in Sids : NextQuestionCall(p, sid)
    \/ \E p \in Procs : GetQuestionsReturn(p)

SpecCalls == Init /\ [][NextCalls]_vars

----------------------------------------------------------------------------
\* Properties

\* The turns of history alternate interviewer, applicant, interviewer, ...
\* and end with an interviewer turn.
Alternating(history) ==
    /\ Len(history) % 2 = 1
    /\ \A i \in 1..Len(history) :
        history[i].role = IF i % 2 = 1 THEN "assistant" ELSE "user"

\* Handler h is suspended in a send of an error envelope to its own websocket.
ErrorToSender(h) ==
    /\ pc[h] = "send"
    /\ bc[h].to = h
    /\ bc[h].msg.type = "error"

\* C1: one send_to_session call that nothing else interferes with (no connect or
\* disconnect on the list, no connection dying during the call) delivers the
\* message to every live connection of the session and leaves no dead
\* connection in the session's list, in both managers.
C1_SendToSessionDeliversAndPrunes ==
    LET b == obs.bcast
    IN  (/\ obs.bcast_end = "returned"
         /\ ~b.touched
         /\ {c \in Range(b.list0) : alive[c]} = b.live0)
        => /\ b.live0 \subseteq Range(b.got)
           /\ \A c \in Range(b.list0) \ b.live0 :
                ~In(c, active_connections[b.m][b.sid].lst)

\* C2: the text submissions of one session are linearized: no two AI calls of
\* text submissions of the session are in flight at the same time, and every
\* interviewer reply in the history directly follows the applicant turn it
\* replies to (text variant and video variant).
C2_SubmissionsLinearized ==
    \A s \in Sids :
        LET hv == vsession[s].conversation_history
            ht == interview_sessions[s].conversation_history
            Adjacent(hist) ==
                \A i \in 1..Len(hist) :
                    (hist[i].role = "assistant" /\ hist[i].type = "text"
                     /\ hist[i].content # 0)
                    => i > 1 /\ hist[i - 1] = Turn("user", hist[i].content, "text")
        IN  /\ Cardinality({h \in Conns : pc[h] = "ai" /\ bc[h].k = "ai_text"
                                          /\ ep[h].sid = s}) <= 1
            /\ Adjacent(hv)
            /\ Adjacent(ht)

\* C3: a text submission made on a session whose status is completed fails and
\* appends nothing to the session's history (process_answer_and_get_next in the
\* text variant, send_text_message in the video variant).
C3_CompletedRejectsSubmission ==
    [][\A s \in Sids :
        /\ (/\ interview_sessions[s].status = "completed"
            /\ obs'.call = "process_answer" /\ obs'.sid = s)
           => /\ obs'.ret = "raised"
              /\ interview_sessions'[s].conversation_history
                    = interview_sessions[s].conversation_history
        /\ \A h \in Conns :
            (/\ vsession[s].status = "completed"
             /\ obs'.h = h /\ obs'.frame = "text_message" /\ ep[h].sid = s)
            => /\ obs'.ret = "False"
               /\ vsession'[s].conversation_history = vsession[s].conversation_history
      ]_vars

\* C4: when an end of a session has completed successfully (generate_report;
\* the end_interview message of the video endpoint; end_video_interview), the
\* session id is no key of the session registry and no connection is
\* registered under it.
C4_EndedSessionUnregistered ==
    \A s \in Sids :
        /\ (obs.call = "generate_report" /\ obs.ret = "ok" /\ obs.sid = s)
           => /\ ~interview_sessions[s].has
              /\ ~active_connections["text"][s].has
        /\ (\/ obs.call = "end_video" /\ obs.ret = "completed" /\ obs.sid = s
            \/ obs.call = "video_report" /\ obs.ret = "ok" /\ obs.sid = s
               /\ obs.frame = "end_interview")
           => /\ s \notin active_video_sessions
              /\ ~active_connections["video"][s].has
              /\ session_connections[s] = NoConn

\* C5: two ends of a session, one directly after the other (so that the history
\* is the same in both), never return different reports: the second one fails
\* or returns the duration, question count and assessment of the first.
C5_EndTwiceSameReport ==
    [][\A s \in Sids :
        /\ (/\ obs.call = "generate_report" /\ obs.ret = "ok" /\ obs.sid = s
            /\ obs'.call = "generate_report" /\ obs'.ret = "ok" /\ obs'.sid = s)
           => obs'.report = obs.report
        /\ (/\ obs.call = "video_report" /\ obs.ret = "ok" /\ obs.sid = s
            /\ obs'.call = "video_report" /\ obs'.ret = "ok" /\ obs'.sid = s)
           => obs'.report = obs.report
      ]_vars

\* C6: a successful initiate_interview leaves a session of status active whose
\* history is exactly one interviewer turn; and a successful submission on a
\* history of 2k+1 alternating turns (k successful submissions and nothing else
\* before it) leaves 2(k+1)+1 alternating turns, the old ones unchanged.
C6_InitiateThenAlternate ==
    [][\A s \in Sids :
        LET old == interview_sessions[s].conversation_history
            new == interview_sessions'[s].conversation_history
        IN  /\ (obs'.call = "initiate" /\ obs'.ret = "active" /\ obs'.sid = s)
               => /\ interview_sessions'[s].status = "active"
                  /\ Len(new) = 1
                  /\ new[1].role = "assistant"
            /\ (/\ obs'.call = "process_answer" /\ obs'.ret = "ok" /\ obs'.sid = s
                /\ Alternating(old))
               => /\ Len(new) = Len(old) + 2
                  /\ SubSeq(new, 1, Len(old)) = old
                  /\ Alternating(new)
      ]_vars

\* C6, its case: the second of two successful submissions has returned, and the
\* history holds five alternating turns.
C6_TwoSubmissionsDone ==
    \E s \in Sids :
        /\ obs.call = "process_answer" /\ obs.ret = "ok" /\ obs.sid = s
        /\ Len(interview_sessions[s].conversation_history) = 5
        /\ Alternating(interview_sessions[s].conversation_history)

\* C7: the total_questions of the report an end returns is the number of
\* interviewer turns of the session's in-memory history at that moment
\* (generate_report; the end_interview message of the video endpoint).
C7_TotalQuestionsCountsHistory ==
    \A s \in Sids :
        /\ (obs.call = "generate_report" /\ obs.ret = "ok" /\ obs.sid = s)
           => obs.report.total_questions
                = CountAssistant(interview_sessions[s].conversation_history)
        /\ (/\ obs.call = "video_report" /\ obs.ret = "ok" /\ obs.sid = s
            /\ obs.frame = "end_interview")
           => obs.report.total_questions
                = CountAssistant(vsession[s].conversation_history)

\* C8: on a frame whose type is none of the recognized kinds the handler sends
\* one error envelope, to the sender, nothing else to anybody, and leaves every
\* session's status and history as they were (both endpoints).
C8_UnknownKindErrorToSender ==
    [][obs'.frame = "unknown_kind"
       => /\ \A h \in Conns : obs'.h = h => ErrorToSender(h)'
          /\ \A h \in Conns : obs'.h # h => UNCHANGED <<pc[h], bc[h]>>
          /\ UNCHANGED <<outbox, interview_sessions, vsession>>
      ]_vars

\* C9: on a malformed frame (no JSON, JSON that is no object, a base64 payload
\* that does not decode) the handler sends an error envelope to the sender and
\* nothing to any other connection (both endpoints).
C9_MalformedErrorToSender ==
    [][obs'.frame \in {"badjson", "nonobject", "bad_base64"}
       => /\ \A h \in Conns : obs'.h = h => ErrorToSender(h)'
          /\ \A h \in Conns : obs'.h # h => UNCHANGED <<pc[h], bc[h]>>
          /\ UNCHANGED outbox
      ]_vars

\* Handler h is suspended in the send of the pong it answers a ping with.
PongPending(h) ==
    /\ pc[h] = "send"
    /\ bc[h].k = "pong"
    /\ bc[h].to = h
    /\ bc[h].msg = Env("pong", 0)

\* C10: a ping on connection A makes the handler send one pong, to A: the step
\* that handles the ping starts no other send and changes no session; and when
\* the send returns on a connection that is still open, A has received exactly
\* that pong, no other connection has received anything, no session has
\* changed, and the handler is back at its receive (both endpoints).
C10_PingPongToSenderOnly ==
    [][\A a \in Conns :
        /\ (obs'.h = a /\ obs'.frame = "ping")
           => /\ PongPending(a)'
              /\ \A b \in Conns \ {a} : UNCHANGED <<pc[b], bc[b]>>
              /\ UNCHANGED <<outbox, interview_sessions, vsession>>
        /\ (PongPending(a) /\ bc'[a] # bc[a] /\ alive[a])
           => /\ outbox' = [outbox EXCEPT ![a] = Append(@, Env("pong", 0))]
              /\ pc'[a] = "recv"
              /\ \A b \in Conns \ {a} : UNCHANGED <<pc[b], bc[b]>>
              /\ UNCHANGED <<interview_sessions, vsession>>
      ]_vars

\* C10, its case: connections w1 and w2 are attached to one session id, the
\* pong of a ping on w1 has been delivered to w1, and w2 has received no pong.
C10_PongDelivered ==
    \E m \in Mgrs, s \in Sids :
        /\ In("w1", active_connections[m][s].lst)
        /\ In("w2", active_connections[m][s].lst)
        /\ outbox["w1"] # <<>>
        /\ outbox["w1"][Len(outbox["w1"])] = Env("pong", 0)
        /\ pc["w1"] = "recv"
        /\ \A i \in 1..Len(outbox["w2"]) : outbox["w2"][i].type # "pong"

\* C11: a connection whose handler has terminated, for whatever reason, is not
\* in the registration list of its session id (both endpoints).
C11_TerminatedHandlerUnregistered ==
    \A h \in Conns :
        pc[h] = "done" => ~In(h, active_connections[ep[h].m][ep[h].sid].lst)

\* C12: disconnect(connection, session_id) never raises; called for a
\* connection that is not in the list of the session id (removed earlier, or no
\* entry) it leaves the connections registered under every session id as they
\* are; and a second disconnect changes nothing the first one has not changed
\* (both managers).
C12_DisconnectIdempotent ==
    \A m \in Mgrs, ws \in Conns, sid \in Sids :
        LET once == disconnect(Cur, m, ws, sid)
            twice == disconnect(once, m, ws, sid)
        IN  /\ twice = once
            /\ ~In(ws, active_connections[m][sid].lst)
               => \A m2 \in Mgrs, s2 \in Sids :
                    once.active_connections[m2][s2].lst = active_connections[m2][s2].lst

\* C12, its case: disconnect has been called for a connection that a failed
\* send had already removed from the list.
C12_DisconnectAfterFailedSend ==
    /\ obs.call = "disconnect"
    /\ obs.ret = "absent"
    /\ ~alive[obs.h]

\* C13: a send_to_session during which another coroutine connects to or
\* disconnects from the session never raises, and every connection that is
\* attached and open from the call to its return receives the message exactly
\* once (no connection of the list is dead at the call, so that no send of the
\* call fails for another reason).
C13_BroadcastUnderMutation ==
    LET b == obs.bcast
        lst == active_connections[b.m][b.sid].lst
        Times(c) == Cardinality({i \in 1..Len(b.got) : b.got[i] = c})
    IN  /\ b.touched => obs.bcast_end # "raised"
        /\ (/\ obs.bcast_end = "returned"
            /\ b.touched
            /\ Range(b.list0) = b.live0)
           => \A c \in b.live0 : (alive[c] /\ In(c, lst)) => Times(c) = 1

\* C14: a session whose status is completed keeps that status in every step
\* (text sessions and video sessions).
C14_CompletedIsTerminal ==
    [][\A s \in Sids :
        /\ interview_sessions[s].status = "completed"
           => interview_sessions'[s].status = "completed"
        /\ vsession[s].status = "completed"
           => vsession'[s].status = "completed"
      ]_vars

\* C14, its case: a text submission has been processed on a session that was
\* completed before it.
C14_SubmissionAfterCompleted ==
    \E s \in Sids :
        /\ obs.call = "process_answer" /\ obs.ret = "ok" /\ obs.sid = s
        /\ interview_sessions[s].status = "completed"
        /\ interview_sessions[s].end_time >= 0

\* The handler that made the text submission of the step (text endpoint): it
\* received the user_message frame in the step, or its broadcast of the frame
\* returned in the step.
TextSubmitter(h) ==
    \/ obs'.h = h /\ obs'.frame = "user_message"
    \/ pc[h] = "bcast" /\ bc[h].k = "bc_user" /\ pc'[h] # "bcast"

\* The step starts no send of an error envelope other than one of handler h to
\* its own websocket, and delivers no error envelope.
ErrorOnlyTo(h) ==
    /\ \A c \in Conns :
        (pc'[c] \in {"send", "bcast"} /\ bc'[c].msg.type = "error" /\ bc'[c] # bc[c])
        => c = h /\ ErrorToSender(c)'
    /\ \A c \in Conns :
        outbox'[c] # outbox[c] => outbox'[c][Len(outbox'[c])].type # "error"

\* C15: a text submission on an active session is accepted (its turn is
\* appended); it fails exactly when its AI call fails, and then the error
\* envelope goes to the submitting connection and to nobody else and the
\* session stays active (so the next submission is accepted the same way).
C15_AiFailureErrorAndRetry ==
    [][\A s \in Sids :
        /\ (/\ obs'.call = "process_answer" /\ obs'.sid = s
            /\ interview_sessions[s].has /\ interview_sessions[s].status = "active")
           => LET old == interview_sessions[s].conversation_history
                  new == interview_sessions'[s].conversation_history
              IN  /\ Len(new) > Len(old)
                  /\ SubSeq(new, 1, Len(old)) = old
                  /\ new[Len(old) + 1].role = "user"
                  /\ obs'.ret = "raised" <=> ~up.ai
                  /\ obs'.ret = "raised"
                     => /\ interview_sessions'[s].status = "active"
                        /\ \A h \in Conns : TextSubmitter(h) => ErrorToSender(h)'
                        /\ \A h \in Conns : TextSubmitter(h) => ErrorOnlyTo(h)
                        /\ (\A h \in Conns : ~TextSubmitter(h)) => UNCHANGED <<pc, bc, outbox>>
        /\ \A h \in Conns :
            (/\ obs'.h = h /\ obs'.frame = "text_message" /\ ep[h].sid = s
             /\ vsession[s].status = "active")
            => /\ vsession'[s].conversation_history
                    = Append(vsession[s].conversation_history,
                             Turn("user", Len(vsession[s].conversation_history) + 1, "text"))
               /\ pc'[h] = "ai"
        /\ \A h \in Conns :
            (/\ pc[h] = "ai" /\ bc[h].k = "ai_text" /\ pc'[h] # "ai" /\ ep[h].sid = s
             /\ ~up.ai)
            => /\ ErrorToSender(h)'
               /\ ErrorOnlyTo(h)
               /\ vsession'[s] = vsession[s]
      ]_vars

\* C15, its case: the AI call of a submission failed on an active session, and
\* the next submission on the session has been accepted (two applicant turns
\* follow the opening question).
C15_RetryAfterAiFailure ==
    \E s \in Sids :
        LET h == interview_sessions[s].conversation_history
        IN  /\ obs.call = "process_answer" /\ obs.sid = s
            /\ interview_sessions[s].status = "active"
            /\ Len(h) = 3
            /\ h[2].role = "user" /\ h[3].role = "user"

C17_InitiateFailsOnlyOnAi ==
    [][\A s \in Sids :
        /\ (obs'.call = "initiate" /\ obs'.sid = s)
           => /\ obs'.ret = "raised" <=> ~up.ai
              /\ obs'.ret = "raised" => UNCHANGED <<interview_sessions, db>>
              /\ obs'.ret # "raised"
                 => /\ obs'.ret = "active"
                    /\ interview_sessions'[s].has
                    /\ interview_sessions'[s].status = "active"
        /\ (obs'.call = "start_video" /\ obs'.sid = s)
           => /\ obs'.ret = "raised" <=> ~up.ai
              /\ obs'.ret = "raised" => UNCHANGED <<active_video_sessions, vsession, db>>
              /\ obs'.ret # "raised"
                 => /\ obs'.ret = "active"
                    /\ s \in active_video_sessions'
                    /\ vsession'[s].status = "active"
      ]_vars

\* C17, its case: an initiate has succeeded while the store rejected its write.
C17_StartedWithoutStore ==
    \E s \in Sids :
        /\ obs.call = "initiate" /\ obs.ret = "active" /\ obs.sid = s
        /\ ~up.db
        /\ ~db.sessions[s].has
        /\ interview_sessions[s].has

\* C18: for a text submission on an active session, the value returned (or the
\* exception raised) and the sessions in memory afterwards are the same with
\* the store accepting the writes and with the store rejecting them.
C18_StoreFailureNotPropagated ==
    \A s \in Sids :
        (interview_sessions[s].has /\ interview_sessions[s].status = "active")
        => LET accepts == process_answer_and_get_next([Cur EXCEPT !.up.db = TRUE], s)
               rejects == process_answer_and_get_next([Cur EXCEPT !.up.db = FALSE], s)
           IN  /\ accepts.obs = rejects.obs
               /\ accepts.interview_sessions = rejects.interview_sessions

\* C18, its case: a submission has returned its reply while the store rejected
\* the writes.
C18_SubmittedWithoutStore ==
    \E s \in Sids :
        /\ obs.call = "process_answer" /\ obs.ret = "ok" /\ obs.sid = s
        /\ ~up.db
        /\ Len(interview_sessions[s].conversation_history) = 3
        /\ db.messages[s] = <<>>

\* C19: an end whose AI call succeeds returns a report although the store is
\* unreachable (generate_report; the end_interview message of the video
\* endpoint).
C19_ReportWithoutStore ==
    \A s \in Sids :
        /\ (obs.call = "generate_report" /\ obs.sid = s /\ interview_sessions[s].has
            /\ up.ai /\ ~up.db)
           => obs.ret = "ok"
        /\ (obs.call = "video_report" /\ obs.sid = s /\ obs.frame = "end_interview"
            /\ up.ai /\ ~up.db)
           => obs.ret = "ok"

\* C20: when the handling of a successful end_interview message of a video
\* session is over, no listen_to_gemini_responses task is running for a
\* connection attached to the session.
C20_EndCancelsEveryTask ==
    [][\A h \in Conns :
        (/\ ep[h].m = "video"
         /\ pc'[h] = "done"
         /\ \/ obs'.h = h /\ obs'.frame = "end_interview" /\ obs'.ret = "ok"
            \/ pc[h] = "bcast" /\ bc[h].k = "v_bc_done")
        => \A c \in Conns :
            In(c, active_connections'["video"][ep[h].sid].lst) => gem'[c].state # "run"
      ]_vars

\* C21: the report store holds at most one report row for any session id,
\* whatever end and report requests were made.
C21_OneReportPerSession ==
    \A s \in Sids : Len(db.reports[s]) <= 1

\* The history of the session websocket c was opened on.
HistoryOf(c) ==
    IF ep[c].m = "text" THEN interview_sessions[ep[c].sid].conversation_history
    ELSE vsession[ep[c].sid].conversation_history

\* Websocket c is attached to the session it was opened on: it is in the list
\* of its manager.
Attached(c) ==
    /\ ep[c].m \in Mgrs
    /\ In(c, active_connections[ep[c].m][ep[c].sid].lst)

\* C22: the interviewer turn that answers the text submission at position 2 of
\* a session's history (the first submission of the session) is eventually
\* delivered as an ai_response envelope to every connection that stays
\* attached to the session and stays open.
C22_ReplyEventuallyDelivered ==
    \A c \in Conns :
        [](( /\ Attached(c)
             /\ alive[c]
             /\ In(Turn("assistant", 2, "text"), HistoryOf(c)) )
           => <>( \/ In(Env("ai_response", 2), outbox[c])
                  \/ ~Attached(c)
                  \/ ~alive[c] ))

\* The step ends the handling of a successful end_interview message by handler
\* h: the message arrived in the step or its last broadcast returned in it, and
\* the handler is neither in a broadcast nor in the send of an error envelope.
EndHandled(h) ==
    /\ \/ obs'.h = h /\ obs'.frame = "end_interview" /\ obs'.ret = "ok"
       \/ pc[h] = "bcast" /\ bc[h].k \in {"bc_report", "v_bc_done"}
    /\ pc'[h] \notin {"bcast", "send"}

\* C23: while a completion envelope is being broadcast the session's status is
\* completed, and when the handling of a successful end_interview message is
\* over, the handler of the connection that sent it has ended: it does not
\* wait for a further frame (text endpoint and video endpoint).
C23_EndClosesChannel ==
    [][\A h \in Conns :
        /\ (pc'[h] = "bcast" /\ bc'[h].msg.type = "interview_completed")
           => IF ep'[h].m = "text"
              THEN interview_sessions'[ep'[h].sid].status = "completed"
              ELSE vsession'[ep'[h].sid].status = "completed"
        /\ EndHandled(h) => pc'[h] = "done"
      ]_vars

\* The step is part of the disconnection of websocket h: its client goes away,
\* its receive or its send raises for that, or the notification broadcast of
\* its disconnect handler goes on.
DisconnectStep(h) ==
    \/ alive[h] /\ ~alive'[h]
    \/ obs'.h = h /\ obs'.frame = "disconnect"
    \/ pc[h] = "send" /\ ~alive[h] /\ pc'[h] # "send"
    \/ /\ pc[h] = "bcast" /\ bc[h].k \in {"bc_disc", "v_bc_disc"}
       /\ <<pc[h], bc[h]>>' # <<pc[h], bc[h]>>

\* C24: the disconnection of a connection, the last one of a session included,
\* leaves every session's status, history and registry entry as they are (text
\* endpoint and video endpoint).
C24_DisconnectKeepsSession ==
    [][(\E h \in Conns : DisconnectStep(h))
       => UNCHANGED <<interview_sessions, vsession, active_video_sessions>>
      ]_vars

\* C24, its case: the last connection of an active session has disconnected,
\* the manager holds no list for the session, and the session is still
\* registered and active.
C24_LastConnectionGone ==
    \E s \in Sids, m \in Mgrs :
        /\ obs.frame = "disconnect" /\ ep[obs.h] = [m |-> m, sid |-> s]
        /\ ~active_connections[m][s].has
        /\ pc[obs.h] = "done"
        /\ IF m = "text"
           THEN interview_sessions[s].has /\ interview_sessions[s].status = "active"
           ELSE s \in active_video_sessions /\ vsession[s].status = "active"

\* a is a prefix of b
IsPrefix(a, b) == Len(a) <= Len(b) /\ SubSeq(b, 1, Len(a)) = a

C26_FailedFrameIsSilent ==
    [][\A h \in Conns :
        LET s == ep[h].sid
        IN  (/\ ep[h].m = "video"
             /\ \/ /\ obs'.h = h /\ obs'.frame = "video_frame"
                   /\ ~vsession[s].is_connected
                \/ /\ pc[h] = "ai" /\ bc[h].k = "ai_frame" /\ pc'[h] # "ai"
                   /\ ~up.ai)
            => /\ vsession'[s].conversation_history = vsession[s].conversation_history
               /\ vsession'[s].status = vsession[s].status
               /\ pc'[h] # "done"
               /\ ~ErrorToSender(h)'
      ]_vars

\* C27: no session waits for the AI call of another session: while the AI call
\* of a text submission on session a is unanswered, a submission on another
\* session b can start its own AI call.
C27_NoSessionWaits ==
    \A p \in Procs, q \in Procs, a \in Sids, b \in Sids :
        (/\ pc[p] = "block" /\ bc[p].sid = a
         /\ b # a /\ interview_sessions[b].has
         /\ pc[q] = "closed"
         /\ used < MaxEvents)
        => ENABLED NextQuestionCall(q, b)

\* C28: once a session's status is completed its history does not change in
\* any step, the return of an AI call that was in flight at the end included
\* (text sessions and video sessions).
C28_CompletedHistoryFrozen ==
    [][\A s \in Sids :
        /\ interview_sessions[s].status = "completed"
           => interview_sessions'[s].conversation_history
                  = interview_sessions[s].conversation_history
        /\ vsession[s].status = "completed"
           => vsession'[s].conversation_history = vsession[s].conversation_history
      ]_vars

\* The history without its video_analysis turns.
TextTurns(history) == SelectSeq(history, LAMBDA t : t.type # "video_analysis")

\* The history starts and ends with an interviewer turn and holds no two
\* applicant turns in a row.
WellFormed(history) ==
    /\ history # <<>>
    /\ history[1].role = "assistant"
    /\ history[Len(history)].role = "assistant"
    /\ \A i \in 1..(Len(history) - 1) :
        ~(history[i].role = "user" /\ history[i + 1].role = "user")

\* A text submission on video session s is at its AI call.
SubmissionInProgress(s) ==
    \E h \in Conns : pc[h] = "ai" /\ bc[h].k = "ai_text" /\ ep[h].sid = s

\* C29: whenever no text submission is in progress on a session, its history
\* (video_analysis turns aside) starts and ends with an interviewer turn and
\* has no two applicant turns in a row, also after a failed AI call.
C29_HistoryWellFormedAtRest ==
    \A s \in Sids :
        /\ interview_sessions[s].has
           => WellFormed(interview_sessions[s].conversation_history)
        /\ (vsession[s].has /\ ~SubmissionInProgress(s))
           => WellFormed(TextTurns(vsession[s].conversation_history))

\* C30: on every connection of the text endpoint the ai_response envelopes
\* arrive in the order in which their interviewer turns stand in the session's
\* history (an envelope carries the position of the answer its turn replies
\* to, and a reply stands right after its answer).
C30_RepliesInHistoryOrder ==
    \A c \in Conns :
        ep[c].m = "text"
        => \A i \in 1..Len(outbox[c]), j \in 1..Len(outbox[c]) :
            (/\ i < j
             /\ outbox[c][i].type = "ai_response"
             /\ outbox[c][j].type = "ai_response")
            => outbox[c][i].content < outbox[c][j].content

====
